---- MODULE Spec2Model ----
(***************************************************************************)
(* A model of the currency bot's core: parse_currency_input, adjust_amount *)
(* (src/bot/handlers.py) and parse_XE_rates (src/bot/xe_parser.py), each   *)
(* exercised one call at a time (Spec), and the handlers that use them:    *)
(* currency_command with fetch_XE_rates and fetch_urlbox_screenshot        *)
(* and inline_query (src/bot/inline_handler.py) with calculate_result      *)
(* (HandlerSpec).                                                          *)
(*                                                                         *)
(* Python strings are TLA+ strings; a character is a string of length 1,   *)
(* read with SubSeq.  Python floats are exact rationals [k |-> "fin", n,   *)
(* d] in lowest terms with d > 0, together with the three IEEE specials    *)
(* nan, inf and -inf; the rounding error of binary floating point is not   *)
(* modelled.  A raised exception is a record [k |-> <exception name>].     *)
(***************************************************************************)
EXTENDS Integers, Sequences, FiniteSets, TLC

VARIABLES
    fn,             \* the function this run exercises
    args,           \* parse_currency_input: the argument list (context.args)
    base_currency,  \* parse_currency_input: the command's base currency
    draw,           \* parse_currency_input: what random.randint returned (0: not drawn yet)
    parsed,         \* parse_currency_input: its outcome
    amount_in,      \* adjust_amount: amount
    rate_in,        \* adjust_amount: rate_adjustment
    adjusted,       \* adjust_amount: its outcome
    extracted,      \* parse_XE_rates: what trafilatura.extract does with input_str
    rate,           \* parse_XE_rates: its outcome
    updates,        \* currency_command: the update of each call
    tasks,          \* currency_command: the frame of each call
    query,          \* inline_query: update.inline_query
    inline          \* inline_query: the frame of the call

\* The variables of the functions exercised one call at a time.
functions == <<args, base_currency, draw, parsed, amount_in, rate_in, adjusted,
               extracted, rate>>

\* The variables of the handlers.
handlers == <<updates, tasks, query, inline>>

vars == <<fn, functions, handlers>>

---------------------------------------------------------------------------
(* Characters and the str methods the code calls.                          *)

Ch(s, i) == SubSeq(s, i, i)

CharsOf(s) == {Ch(s, i) : i \in 1..Len(s)}

LowerAlphabet == "abcdefghijklmnopqrstuvwxyz"

UpperAlphabet == "ABCDEFGHIJKLMNOPQRSTUVWXYZ"

Letters == CharsOf(LowerAlphabet) \cup CharsOf(UpperAlphabet)

DecimalDigits == CharsOf("0123456789")

\* "~" stands for U+00B2 SUPERSCRIPT TWO throughout the model: a character of
\* Unicode category No, for which str.isdigit() is True while float() and the
\* regex class \d (category Nd only) reject it.
SUPERSCRIPT_TWO == "~"

IsDigitChar(c) == c \in DecimalDigits \cup {SUPERSCRIPT_TWO}

Whitespace == {" ", "\n", "\t"}

upper_char(c) ==
    IF c \in CharsOf(LowerAlphabet)
    THEN Ch(UpperAlphabet, CHOOSE i \in 1..Len(LowerAlphabet) : Ch(LowerAlphabet, i) = c)
    ELSE c

RECURSIVE upper(_)
upper(s) ==
    IF s = "" THEN "" ELSE upper_char(Ch(s, 1)) \o upper(SubSeq(s, 2, Len(s)))

isalpha(s) == s # "" /\ \A i \in 1..Len(s) : Ch(s, i) \in Letters

isdigit(s) == s # "" /\ \A i \in 1..Len(s) : IsDigitChar(Ch(s, i))

startswith(s, p) == Len(s) >= Len(p) /\ SubSeq(s, 1, Len(p)) = p

endswith(s, p) == Len(s) >= Len(p) /\ SubSeq(s, Len(s) - Len(p) + 1, Len(s)) = p

\* s.replace(c, '', 1): the first occurrence of the character c removed.
replace_first(s, c) ==
    IF \E i \in 1..Len(s) : Ch(s, i) = c
    THEN LET i == CHOOSE j \in 1..Len(s) :
                      Ch(s, j) = c /\ \A h \in 1..(j - 1) : Ch(s, h) # c
         IN  SubSeq(s, 1, i - 1) \o SubSeq(s, i + 1, Len(s))
    ELSE s

\* s.lstrip(c) and s.rstrip(c): every leading (trailing) c removed.
RECURSIVE lstrip(_, _)
lstrip(s, c) ==
    IF s # "" /\ Ch(s, 1) = c THEN lstrip(SubSeq(s, 2, Len(s)), c) ELSE s

RECURSIVE rstrip(_, _)
rstrip(s, c) ==
    IF s # "" /\ Ch(s, Len(s)) = c THEN rstrip(SubSeq(s, 1, Len(s) - 1), c) ELSE s

\* s.split(sep) for a one-character separator: a sequence of strings.
RECURSIVE split(_, _)
split(s, sep) ==
    IF \E i \in 1..Len(s) : Ch(s, i) = sep
    THEN LET i == CHOOSE j \in 1..Len(s) :
                      Ch(s, j) = sep /\ \A h \in 1..(j - 1) : Ch(s, h) # sep
         IN  <<SubSeq(s, 1, i - 1)>> \o split(SubSeq(s, i + 1, Len(s)), sep)
    ELSE <<s>>

---------------------------------------------------------------------------
(* Floats.                                                                 *)

Abs(i) == IF i < 0 THEN -i ELSE i

RECURSIVE GCD(_, _)
GCD(a, b) == IF b = 0 THEN a ELSE GCD(b, a % b)

Fin(n, d) ==
    LET s == IF d < 0 THEN -1 ELSE 1
        g == GCD(Abs(n), Abs(d))
    IN  [k |-> "fin", n |-> (s * n) \div g, d |-> Abs(d) \div g]

Num(i) == [k |-> "fin", n |-> i, d |-> 1]

NaN == [k |-> "nan", n |-> 0, d |-> 1]

PosInf == [k |-> "inf", n |-> 1, d |-> 1]

NegInf == [k |-> "-inf", n |-> -1, d |-> 1]

Raised(name) == [k |-> name, n |-> 0, d |-> 1]

IsFin(v) == v.k = "fin"

IsFloat(v) == v.k \in {"fin", "nan", "inf", "-inf"}

\* The sign of a float: -1, 0 or 1 (nan has none and is never asked).
Sign(v) == IF v.n > 0 THEN 1 ELSE IF v.n < 0 THEN -1 ELSE 0

\* a > 0, a >= 0, a <= 0 : every comparison with nan is False.
FGt0(v) == v.k # "nan" /\ Sign(v) > 0

FGe0(v) == v.k # "nan" /\ Sign(v) >= 0

FLe0(v) == v.k # "nan" /\ Sign(v) <= 0

FAbs(v) ==
    CASE v.k = "fin" -> Fin(Abs(v.n), v.d)
      [] v.k = "nan" -> NaN
      [] OTHER       -> PosInf

FAdd(a, b) ==
    CASE a.k = "nan" \/ b.k = "nan" -> NaN
      [] a.k = "fin" /\ b.k = "fin" -> Fin(a.n * b.d + b.n * a.d, a.d * b.d)
      [] a.k = "fin"                -> b
      [] b.k = "fin"                -> a
      [] a.k = b.k                  -> a
      [] OTHER                      -> NaN

FMul(a, b) ==
    CASE a.k = "nan" \/ b.k = "nan" -> NaN
      [] a.k = "fin" /\ b.k = "fin" -> Fin(a.n * b.n, a.d * b.d)
      [] Sign(a) * Sign(b) = 0      -> NaN
      [] Sign(a) * Sign(b) > 0      -> PosInf
      [] OTHER                      -> NegInf

\* a / b; a zero divisor raises ZeroDivisionError.
FDiv(a, b) ==
    CASE a.k = "nan" \/ b.k = "nan"  -> NaN
      [] b.k = "fin" /\ b.n = 0      -> Raised("ZeroDivisionError")
      [] a.k = "fin" /\ b.k = "fin"  -> Fin(a.n * b.d, a.d * b.n)
      [] a.k = "fin"                 -> Num(0)
      [] b.k = "fin"                 -> IF Sign(a) * Sign(b) > 0 THEN PosInf ELSE NegInf
      [] OTHER                       -> NaN

RECURSIVE Pow10(_)
Pow10(e) == IF e = 0 THEN 1 ELSE 10 * Pow10(e - 1)

\* round(v, ndigits) of a float: the set of floats it can return.  That is the
\* nearest multiple of 10^-ndigits; where the rational lies exactly between two
\* of them, the binary float it stands for lies on either side or on the tie,
\* and either neighbour can be the result.  nan and the infinities are returned
\* as they are.
round(v, ndigits) ==
    IF ~IsFin(v) THEN {v}
    ELSE LET p    == Pow10(ndigits)
             num  == Abs(v.n) * p
             q    == num \div v.d
             r    == num % v.d
         IN  CASE 2 * r < v.d -> {Fin(Sign(v) * q, p)}
               [] 2 * r > v.d -> {Fin(Sign(v) * (q + 1), p)}
               [] OTHER       -> {Fin(Sign(v) * q, p), Fin(Sign(v) * (q + 1), p)}

IsDecimal(s) == s # "" /\ \A i \in 1..Len(s) : Ch(s, i) \in DecimalDigits

RECURSIVE DecimalValue(_)
DecimalValue(s) ==
    IF s = "" THEN 0
    ELSE 10 * DecimalValue(SubSeq(s, 1, Len(s) - 1))
         + (CHOOSE v \in 0..9 : Ch("0123456789", v + 1) = Ch(s, Len(s)))

\* float(s) of a str without surrounding blanks: an optional sign, then INF,
\* INFINITY or NAN in any case, or digits with an optional point and an optional
\* exponent; anything else raises ValueError.
float_mantissa(m) ==
    LET parts == split(m, ".")
        ip    == parts[1]
        fp    == IF Len(parts) = 2 THEN parts[2] ELSE ""
    IN  IF /\ Len(parts) <= 2
           /\ ip \o fp # ""
           /\ (ip = "" \/ IsDecimal(ip))
           /\ (fp = "" \/ IsDecimal(fp))
        THEN Fin(DecimalValue(ip \o fp), Pow10(Len(fp)))
        ELSE Raised("ValueError")

float_exponent(e) ==
    LET neg  == e # "" /\ Ch(e, 1) = "-"
        body == IF e # "" /\ Ch(e, 1) \in {"+", "-"} THEN SubSeq(e, 2, Len(e)) ELSE e
    IN  IF ~IsDecimal(body) THEN Raised("ValueError")
        ELSE IF neg THEN Fin(1, Pow10(DecimalValue(body)))
        ELSE Num(Pow10(DecimalValue(body)))

float_str(s) ==
    LET u    == upper(s)
        neg  == u # "" /\ Ch(u, 1) = "-"
        body == IF u # "" /\ Ch(u, 1) \in {"+", "-"} THEN SubSeq(u, 2, Len(u)) ELSE u
        ep   == split(body, "E")
        m    == float_mantissa(ep[1])
        x    == IF Len(ep) = 2 THEN float_exponent(ep[2]) ELSE Num(1)
        mag  == IF Len(ep) > 2 \/ ~IsFin(m) \/ ~IsFin(x)
                THEN Raised("ValueError") ELSE FMul(m, x)
    IN  CASE body \in {"INF", "INFINITY"} -> IF neg THEN NegInf ELSE PosInf
          [] body = "NAN"                 -> NaN
          [] ~IsFin(mag)                  -> Raised("ValueError")
          [] OTHER                        -> IF neg THEN Fin(-mag.n, mag.d) ELSE mag

---------------------------------------------------------------------------
(* parse_currency_input (src/bot/handlers.py).                             *)

\* random.randint(1, 10000): the bounds of the draw.
RandMin == 1

RandMax == 10000

\* The outcomes of random.randint(a, b) the model draws from: both ends of the
\* range.
randint(a, b) == {a, b}

\* The locals of parse_currency_input; exc is the exception that left the
\* function, "" while none has.
Locals(amount, from_currency, to_currency, rate_adjustment) ==
    [amount |-> amount, from_currency |-> from_currency,
     to_currency |-> to_currency, rate_adjustment |-> rate_adjustment, exc |-> ""]

\* defaults with the USD base forgotten: to_currency is always "USD".
DefaultToUSD(bc, r) == Locals(Num(r), bc, "USD", Num(1))

\* Lines 134-137: the values before any token is read; r is the random draw.
defaults(bc, r) ==
    Locals(Num(r), bc, IF bc # "USD" THEN "USD" ELSE "EUR", Num(1))

\* amount = float(text) of lines 156 and 163: the ValueError of float() is not
\* caught inside parse_currency_input.
set_amount(loc, text) ==
    LET v == float_str(text)
    IN  IF IsFloat(v) THEN [loc EXCEPT !.amount = v] ELSE [loc EXCEPT !.exc = v.k]

\* Lines 144-164: args[0].
first_token(loc, token, bc) ==
    LET input_text == upper(token)
        detected_currency == SubSeq(input_text, Len(input_text) - 2, Len(input_text))
        amount_str == SubSeq(input_text, 1, Len(input_text) - 3)
    IN  IF Len(input_text) = 3 /\ isalpha(input_text)
        THEN [loc EXCEPT !.to_currency = input_text]
        ELSE IF Len(input_text) >= 3 /\ isalpha(detected_currency)
        THEN IF isdigit(amount_str)
             THEN [set_amount(loc, amount_str) EXCEPT
                       !.from_currency = detected_currency, !.to_currency = bc]
             ELSE loc
        ELSE IF isdigit(input_text)
        THEN set_amount(loc, input_text)
        ELSE loc

\* Lines 170-172: the test that sends an extra token to the rate branch.
is_rate_token(arg) ==
    \/ startswith(arg, "R")
    \/ startswith(arg, "+")
    \/ startswith(arg, "-")
    \/ endswith(arg, "%")
    \/ isdigit(replace_first(arg, "."))

\* Line 175.
rate_str(arg) == rstrip(lstrip(lstrip(arg, "R"), "+"), "%")

\* rate_of with a negative value subtracted like a positive one is added.
RateSubtractive(rate_value) == FAdd(Num(1), FDiv(rate_value, Num(100)))

\* Lines 177-179.
rate_of(rate_value) ==
    IF FGe0(rate_value)
    THEN FAdd(Num(1), FDiv(rate_value, Num(100)))
    ELSE FDiv(Num(1), FAdd(Num(1), FDiv(FAbs(rate_value), Num(100))))

\* rate_branch without the except clause: the ValueError of float() leaves
\* the function.
RateBranchRaises(loc, arg) ==
    LET rate_value == float_str(rate_str(arg))
    IN  IF ~IsFloat(rate_value) THEN [loc EXCEPT !.exc = rate_value.k]
        ELSE [loc EXCEPT !.rate_adjustment = rate_of(rate_value)]

\* Lines 173-184: the rate branch; only ValueError is caught.
rate_branch(loc, arg) ==
    LET rate_value == float_str(rate_str(arg))
        r == rate_of(rate_value)
    IN  IF rate_value.k = "ValueError" THEN loc
        ELSE IF ~IsFloat(r) THEN [loc EXCEPT !.exc = r.k]
        ELSE [loc EXCEPT !.rate_adjustment = r]

\* extra_token with a currency code among the extra tokens taken as the
\* source currency too.
ExtraTokenSetsFrom(loc, token) ==
    LET arg == upper(token)
    IN  IF is_rate_token(arg) THEN rate_branch(loc, arg)
        ELSE IF Len(arg) = 3 /\ isalpha(arg)
        THEN [loc EXCEPT !.to_currency = arg, !.from_currency = arg]
        ELSE loc

\* Lines 168-189: one iteration of the loop over args[1:].
extra_token(loc, token) ==
    LET arg == upper(token)
    IN  IF is_rate_token(arg) THEN rate_branch(loc, arg)
        ELSE IF Len(arg) = 3 /\ isalpha(arg) THEN [loc EXCEPT !.to_currency = arg]
        ELSE loc

\* Lines 167-189: the loop; an exception ends it.
RECURSIVE extra_tokens(_, _)
extra_tokens(loc, rest) ==
    IF rest = <<>> \/ loc.exc # "" THEN loc
    ELSE extra_tokens(extra_token(loc, Head(rest)), Tail(rest))

\* Lines 133-194: the whole function, given the random draw r.
parse_currency_input(a, bc, r) ==
    IF a = <<>> THEN defaults(bc, r)
    ELSE extra_tokens(first_token(defaults(bc, r), a[1], bc), Tail(a))

---------------------------------------------------------------------------
(* adjust_amount (src/bot/handlers.py).                                    *)

\* Line 200: the digits the adjusted amount is rounded to.
AmountDecimals == 2

\* adjust_amount without the test of the sign: every amount is multiplied and
\* rounded.
AdjustAlways(amount, rate_adjustment) ==
    round(FMul(amount, rate_adjustment), AmountDecimals)

\* Lines 199-201: the floats the call can return; float(amount) of a float is
\* the float itself.
adjust_amount(amount, rate_adjustment) ==
    LET float_amount == amount
    IN  IF FGt0(float_amount)
        THEN round(FMul(float_amount, rate_adjustment), AmountDecimals)
        ELSE {float_amount}

---------------------------------------------------------------------------
(* parse_XE_rates (src/bot/xe_parser.py).                                  *)

\* span(s, i, C): the first position from i on whose character is not in C
\* (Len(s) + 1 when there is none): where a greedy run of C that starts at i ends.
span(s, i, C) ==
    CHOOSE j \in i..(Len(s) + 1) :
        /\ j = Len(s) + 1 \/ Ch(s, j) \notin C
        /\ \A h \in i..(j - 1) : Ch(s, h) \in C

At(s, i) == IF i >= 1 /\ i <= Len(s) THEN Ch(s, i) ELSE ""

\* \d{1,3}(?:,\d{3})*|\d+ matching the whole of t.
is_amount(t) ==
    LET groups == split(t, ",")
    IN  \/ IsDecimal(t)
        \/ /\ IsDecimal(groups[1]) /\ Len(groups[1]) <= 3
           /\ \A i \in 2..Len(groups) : IsDecimal(groups[i]) /\ Len(groups[i]) = 3

\* (\d{1,3}(?:,\d{3})*|\d+)\.\d+\s+[A-Za-z\s]+ from position p: the position
\* after it, 0 when it does not match there.  The amount runs to the first
\* character that is neither digit nor comma, which has to be the point; the
\* digits after the point run to a blank; blanks and letters run on greedily.
amount_and_words(s, p) ==
    LET a == span(s, p, DecimalDigits \cup {","})
        b == span(s, a + 1, DecimalDigits)
        d == span(s, b, Letters \cup Whitespace)
    IN  IF /\ a > p /\ At(s, a) = "." /\ is_amount(SubSeq(s, p, a - 1))
           /\ b > a + 1
           /\ At(s, b) \in Whitespace
           /\ d - b >= 2
        THEN d ELSE 0

\* The whole pattern of line 27 from position p: the position after the match,
\* 0 when there is none.
match_at(s, p) ==
    LET d == amount_and_words(s, p)
        e == span(s, d + 1, Whitespace)
    IN  IF d # 0 /\ At(s, d) = "=" THEN amount_and_words(s, e) ELSE 0

\* re.search(pattern, s) and group(0): the leftmost match, "" for None.
re_search(s) ==
    IF \E p \in 1..Len(s) : match_at(s, p) # 0
    THEN LET p == CHOOSE q \in 1..Len(s) :
                      match_at(s, q) # 0 /\ \A h \in 1..(q - 1) : match_at(s, h) = 0
         IN  SubSeq(s, p, match_at(s, p) - 1)
    ELSE ""

\* re_sub with the comma left in the class of kept characters.
RECURSIVE KeepCommas(_)
KeepCommas(s) ==
    IF s = "" THEN ""
    ELSE (IF Ch(s, 1) \in DecimalDigits \cup {".", "=", ","} THEN Ch(s, 1) ELSE "")
         \o KeepCommas(SubSeq(s, 2, Len(s)))

\* re.sub(r"[^0-9.=]", "", s).
RECURSIVE re_sub(_)
re_sub(s) ==
    IF s = "" THEN ""
    ELSE (IF Ch(s, 1) \in DecimalDigits \cup {".", "="} THEN Ch(s, 1) ELSE "")
         \o re_sub(SubSeq(s, 2, Len(s)))

\* Line 56: the digits the rate is rounded to.
RateDecimals == 7

\* What trafilatura.extract does: it raises, or gives a text ("" also for None).
Extracted(kind, text) == [kind |-> kind, text |-> text]

\* Lines 52-56: the guard and the rate; the floats it can give, or the
\* exception raised.
rate_from_amounts(from_amount, to_amount) ==
    IF FLe0(from_amount) THEN {Raised("ValueError")}
    ELSE round(FDiv(to_amount, from_amount), RateDecimals)

\* Lines 11-59, the body of the try: what it can end with, a float returned or
\* an exception raised.
rates_body(ex) ==
    IF ex.kind = "not_str" THEN {Raised("ValueError")}
    ELSE IF ex.kind = "raises" THEN {Raised("Exception")}
    ELSE IF ex.text = "" THEN {Raised("ValueError")}
    ELSE LET amounts == re_search(ex.text)
             amount_str == re_sub(amounts)
             amounts_parts == split(amount_str, "=")
         IN  IF amounts = "" THEN {Raised("ValueError")}
             ELSE IF Len(amounts_parts) # 2 THEN {Raised("ValueError")}
             ELSE LET from_amount == float_str(amounts_parts[1])
                      to_amount == float_str(amounts_parts[2])
                  IN  IF ~IsFloat(from_amount) THEN {from_amount}
                      ELSE IF ~IsFloat(to_amount) THEN {to_amount}
                      ELSE rate_from_amounts(from_amount, to_amount)

\* parse_XE_rates with the except clause giving 0.0 back instead of raising.
RatesSwallow(ex) ==
    {IF IsFloat(r) THEN r ELSE Num(0) : r \in rates_body(ex)}

\* Lines 10-63: every exception of the body leaves as ValueError.
parse_XE_rates(ex) ==
    {IF IsFloat(r) THEN r ELSE Raised("ValueError") : r \in rates_body(ex)}

---------------------------------------------------------------------------
(* The inputs of the model.                                                *)

\* Two of the currencies main.py registers a command for.
Bases == {"EUR", "USD"}

\* Token 0 of an argument list, and the ones among them that extra tokens follow.
FirstTokens == {"gbp", "100usd", "250", "R-2", "ABCD", "US", "~", "~USD"}

FollowedTokens == {"gbp", "100usd", "250", "~"}

ExtraTokens ==
    {"R+5", "R-2", "-100", "5%", "2.5", "R", "Rabc", "-inf", "Rnan", "gbp", "RUB",
     "100USD", "RR5", "++5", "5%%"}

\* The most extra tokens (index >= 1) an argument list has.
MaxExtra == 2

RECURSIVE SeqsUpTo(_, _)
SeqsUpTo(S, n) ==
    IF n = 0 THEN {<<>>}
    ELSE LET shorter == SeqsUpTo(S, n - 1)
         IN  shorter \cup {Append(q, x) : q \in shorter, x \in S}

ArgLists ==
    {<<>>}
    \cup {<<t>> : t \in FirstTokens}
    \cup {<<t>> \o rest : t \in FollowedTokens, rest \in SeqsUpTo(ExtraTokens, MaxExtra)}

Amounts ==
    {Num(-5), Fin(-1, 250), Num(0), Fin(1, 250), Fin(1, 8), Num(1), Fin(333, 100),
     Num(100), Num(RandMax), NaN}

Multipliers ==
    {Num(1), Fin(21, 20), Fin(50, 51), Fin(1, 2), Num(2), Num(0), NaN, PosInf}

Texts ==
    {"", "no numbers here", "1.00 US Dollar = 0.92 Euro", "1,234.56 A = 1.00 B",
     "0.00 A = 1.00 B", "1.00 A = 0.00 B", "x 2.0 A = 3.0 B = 4.0 C",
     "1234,567.8 A = 1.0 B", "12,34.5 D = 1.0 E", "1.0 A = 1.0 ", "1.0A = 1.0 B",
     "1.0 A =2.0 B", "5 A = 1.0 B", "1.0 A\n= 3.0 B C", "3.0 A = 1.0 B",
     "1.0 A = 2.0 B 3.0 C = 9.0 D", "1.0 A1 = 2.0 B 3.0 C = 6.0 D",
     "7,000.0 A = 1,000.0 B", "1.0  = 4.0  ", "9.0 A = 0.0000004 B",
     "2.0 A = 0.0000001 B"}

Extractions ==
    {Extracted("not_str", ""), Extracted("raises", "")}
    \cup {Extracted("text", t) : t \in Texts}

Pending == [status |-> "pending"]

Done(v) == [status |-> "done", out |-> v]

---------------------------------------------------------------------------
(* fetch_urlbox_screenshot (src/bot/screenshot.py), fetch_XE_rates and     *)
(* currency_command (src/bot/handlers.py).  A call of currency_command is  *)
(* a coroutine: it runs from one await to the next without interruption,   *)
(* and what the awaited call answers is an input of the step that resumes  *)
(* it.  Each operator below is one such step: given the task's frame and   *)
(* the answer, the set of frames the step can end in.                      *)

\* config.py line 59.
ERROR_MESSAGE == "Sorry, something went wrong. Please try again later."

lower_char(c) ==
    IF c \in CharsOf(UpperAlphabet)
    THEN Ch(LowerAlphabet, CHOOSE i \in 1..Len(UpperAlphabet) : Ch(UpperAlphabet, i) = c)
    ELSE c

RECURSIVE lower(_)
lower(s) ==
    IF s = "" THEN "" ELSE lower_char(Ch(s, 1)) \o lower(SubSeq(s, 2, Len(s)))

\* sub in s.
contains(s, sub) ==
    \E i \in 1..(Len(s) - Len(sub) + 1) : SubSeq(s, i, i + Len(sub) - 1) = sub

\* What an awaited call answers.  status is "ok" or an HTTP status, or what is
\* wrong with the body, or the name of the exception the call raises; body is
\* what trafilatura.extract makes of the text of an HTML response.
Response(status, body) == [status |-> status, body |-> body]

NoBody == Extracted("text", "")

\* An awaited call, by the name of its await in the code, and its answer.
Call(call, response) == [call |-> call, response |-> response]

\* A message in the chat.
Text(text) == [kind |-> "text", text |-> text, photo |-> "", caption |-> <<>>]

Photo(photo, caption) == [kind |-> "photo", text |-> "", photo |-> photo, caption |-> caption]

\* Lines 278-280: the progress message (without its emoji).
progress_text(loc) ==
    "Converting " \o loc.from_currency \o " to " \o loc.to_currency
        \o "...\nGetting latest rates from XE.com..."

\* Lines 302-309: the reply of the except ValueError clause (without its emoji
\* and bullets).
invalid_input_text(bc) ==
    LET usage_example ==
            IF bc # "USD" THEN "/" \o lower(bc) \o " 100USD"
            ELSE "/" \o lower(bc) \o " 100EUR"
    IN  "Invalid input format!\n\nExamples:\n" \o usage_example
            \o " - Convert from USD\n/" \o lower(bc) \o " 100 - Convert " \o bc
            \o "\n/" \o lower(bc) \o " 100 R-2 - Apply -2% rate\n\n"
            \o "Type /help for more information."

\* Lines 312-314: the reply of the except Exception clause (without its emoji).
apology_text ==
    ERROR_MESSAGE \o "\nIf this persists, please try again in a few minutes."

\* Line 224: the query of xe_url.
XeUrl(Amount, From, To) == [Amount |-> Amount, From |-> From, To |-> To]

\* A line of the caption: what it shows and the number formatted into it.
CaptionLine(line, one, value, other) ==
    [line |-> line, one |-> one, value |-> value, other |-> other]

\* Line 233: the digits of the rate adjustment in the caption.
PercentDecimals == 1

\* Lines 230-237: the captions the amount line, the adjustment line and the
\* timestamp line can make; a number formatted with .Nf is the number rounded
\* to N digits.  The time of the timestamp is not modelled.
caption_head(loc) ==
    LET rate_percent == FMul(FAdd(loc.rate_adjustment, Num(-1)), Num(100))
    IN  {<<CaptionLine("amount", loc.from_currency, a, loc.to_currency)>>
           \o (IF loc.rate_adjustment # Num(1)
               THEN <<CaptionLine("adjustment", "", p, "")>> ELSE <<>>)
           \o <<CaptionLine("timestamp", "", Num(0), "")>> :
         a \in round(loc.amount, AmountDecimals),
         p \in round(rate_percent, PercentDecimals)}

\* rate_lines without the test of line 241: the two lines are appended for
\* every rate returned.
RateLinesNoGuard(caption, loc, r) ==
    IF ~IsFloat(r) THEN {caption}
    ELSE {caption \o <<CaptionLine("rate", loc.from_currency, v, loc.to_currency),
                       CaptionLine("rate", loc.to_currency, w, loc.from_currency)>> :
          v \in round(r, RateDecimals),
          w \in round(FDiv(Num(1), r), RateDecimals)}

\* Lines 239-247: the captions after the try, r being what parse_XE_rates
\* returned or raised (it raises ValueError only, which is caught here).
rate_lines(caption, loc, r) ==
    IF ~IsFloat(r) THEN {caption}
    ELSE IF FGt0(r)
    THEN {caption \o <<CaptionLine("rate", loc.from_currency, v, loc.to_currency),
                       CaptionLine("rate", loc.to_currency, w, loc.from_currency)>> :
          v \in round(r, RateDecimals),
          w \in round(FDiv(Num(1), r), RateDecimals)}
    ELSE {caption}

\* Lines 230-247: the captions fetch_XE_rates can build from html_data.
build_caption(loc, html_data) ==
    UNION {rate_lines(c, loc, r) :
           c \in caption_head(loc), r \in parse_XE_rates(html_data)}

\* What fetch_XE_rates gave its caller: nothing yet, the pair it returned, or
\* the exception it raised.
Returned(image_data, caption) ==
    [status |-> "returned", image_data |-> image_data, caption |-> caption]

FetchRaised(exc) == [status |-> "raised", exc |-> exc]

\* The frame of a call of currency_command: where it is suspended, the locals
\* of currency_command and of fetch_XE_rates, the exception being handled,
\* the awaited calls so far with their answers, and the messages in the chat.
Task(pc) ==
    [pc |-> pc, locals |-> Locals(Num(0), "", "", Num(1)),
     xe_url |-> XeUrl(Num(0), "", ""), html_data |-> NoBody, caption |-> <<>>,
     fetched |-> Pending, exc |-> "", io |-> <<>>, chat |-> <<>>]

\* The bytes of the image.
IMAGE == "PNG"

\* Lines 297-310: an exception raised inside the outer try is logged and
\* re-raised by the inner clause where it passes it, and taken by the except
\* ValueError clause or by the except Exception clause.
handle(t, exc) ==
    [t EXCEPT !.exc = exc,
              !.pc = IF exc = "ValueError" THEN "except_ValueError"
                     ELSE "except_Exception"]

\* fetch_XE_rates raises exc (nothing in it catches): the caller has no pair.
fetch_raises(t, exc) == handle([t EXCEPT !.fetched = FetchRaised(exc)], exc)

\* The frame with the awaited call and its answer recorded.
answered(t, call, o) == [t EXCEPT !.io = Append(@, Call(call, o))]

\* Lines 264-275: from the call to the first await; update.message may be
\* missing.
start(u) ==
    IF ~u.message THEN {Task("returned")}
    ELSE {LET loc == parse_currency_input(u.args, u.base_currency, r)
          IN  IF loc.exc # "" THEN handle(Task("start"), loc.exc)
              ELSE [Task("reply_progress") EXCEPT !.locals = loc] :
          r \in randint(RandMin, RandMax)}

\* Lines 278-280 and 284, 223-227: the progress message is sent; then
\* fetch_XE_rates runs up to the request to the rendering API.
reply_progress(t, o) ==
    LET t1 == answered(t, "reply_text", o)
        loc == t.locals
    IN  IF o.status # "ok" THEN {handle(t1, o.status)}
        ELSE {[t1 EXCEPT !.pc = "urlbox_api",
                         !.chat = Append(@, Text(progress_text(loc))),
                         !.xe_url = XeUrl(a, loc.from_currency, loc.to_currency)] :
              a \in adjust_amount(loc.amount, loc.rate_adjustment)}

\* screenshot.py lines 70-96: the answer of the rendering API.  An exception of
\* session.get passes the outer clause (lines 128-130) as it is.
urlbox_api(t, o) ==
    LET t1 == answered(t, "urlbox_api", o)
    IN  CASE o.status = "200"         -> {[t1 EXCEPT !.pc = "html_fetch"]}
          [] o.status = "ClientError" -> {fetch_raises(t1, "ClientError")}
          [] OTHER                    -> {fetch_raises(t1, "Exception")}

\* html_fetch with the ValueError of parse_XE_rates not caught: it leaves
\* fetch_XE_rates.
HtmlFetchParseFatal(t, o) ==
    LET t1 == answered(t, "html_fetch", o)
    IN  IF o.status # "200" THEN {fetch_raises(t1, "Exception")}
        ELSE IF \E r \in parse_XE_rates(o.body) : ~IsFloat(r)
        THEN {fetch_raises([t1 EXCEPT !.html_data = o.body], "ValueError")}
        ELSE {[t1 EXCEPT !.pc = "image_download", !.html_data = o.body,
                         !.caption = c] :
              c \in build_caption(t.locals, o.body)}

\* html_fetch repeating the request after a failure.
HtmlFetchRetries(t, o) ==
    LET t1 == answered(t, "html_fetch", o)
    IN  IF o.status = "200"
        THEN {[t1 EXCEPT !.pc = "image_download", !.html_data = o.body,
                         !.caption = c] :
              c \in build_caption(t.locals, o.body)}
        ELSE {t1}

\* screenshot.py lines 103-126 and handlers.py lines 230-247: the answer of
\* the HTML fetch; every failure leaves as Exception (lines 119-126).  With
\* the text, fetch_XE_rates builds the caption and asks for the image.
html_fetch(t, o) ==
    LET t1 == answered(t, "html_fetch", o)
    IN  IF o.status = "200"
        THEN {[t1 EXCEPT !.pc = "image_download", !.html_data = o.body,
                         !.caption = c] :
              c \in build_caption(t.locals, o.body)}
        ELSE {fetch_raises(t1, "Exception")}

\* image_download returning the caption without the image on a status that
\* is not 200.
ImagePartial(t, o) ==
    LET t1 == answered(t, "image_download", o)
    IN  CASE o.status = "200" ->
               {[t1 EXCEPT !.pc = "delete_progress",
                           !.fetched = Returned(IMAGE, t.caption)]}
          [] o.status = "404" ->
               {[t1 EXCEPT !.pc = "delete_progress",
                           !.fetched = Returned("", t.caption)]}
          [] OTHER -> {fetch_raises(t1, o.status)}

\* handlers.py lines 250-257: the answer of the image download; a status that
\* is not 200 raises ValueError, an exception of session.get is not caught.
image_download(t, o) ==
    LET t1 == answered(t, "image_download", o)
    IN  CASE o.status = "200" ->
               {[t1 EXCEPT !.pc = "delete_progress",
                           !.fetched = Returned(IMAGE, t.caption)]}
          [] o.status = "404" -> {fetch_raises(t1, "ValueError")}
          [] OTHER -> {fetch_raises(t1, o.status)}

\* Line 291: progress_msg.delete().
delete_progress(t, o) ==
    LET t1 == answered(t, "delete", o)
    IN  IF o.status # "ok" THEN {handle(t1, o.status)}
        ELSE {[t1 EXCEPT !.pc = "reply_photo", !.chat = Tail(@)]}

\* Line 294: message.reply_photo(photo=image_data, caption=caption).
reply_photo(t, o) ==
    LET t1 == answered(t, "reply_photo", o)
    IN  IF o.status # "ok" THEN {handle(t1, o.status)}
        ELSE {[t1 EXCEPT !.pc = "returned",
                         !.chat = Append(@, Photo(t.fetched.image_data,
                                                  t.fetched.caption))]}

\* An except clause's reply_text: nothing is around it, so its exception
\* leaves currency_command.
error_reply(t, o, text) ==
    LET t1 == answered(t, "reply_text", o)
    IN  IF o.status # "ok" THEN {[t1 EXCEPT !.pc = "raised", !.exc = o.status]}
        ELSE {[t1 EXCEPT !.pc = "returned", !.chat = Append(@, Text(text))]}

\* Lines 300-309.
except_ValueError(t, u, o) == error_reply(t, o, invalid_input_text(u.base_currency))

\* Lines 310-314.
except_Exception(t, o) == error_reply(t, o, apology_text)

\* The event loop resuming the task with the answer of the call it awaits.
resume(t, u, o) ==
    CASE t.pc = "reply_progress"    -> reply_progress(t, o)
      [] t.pc = "urlbox_api"        -> urlbox_api(t, o)
      [] t.pc = "html_fetch"        -> html_fetch(t, o)
      [] t.pc = "image_download"    -> image_download(t, o)
      [] t.pc = "delete_progress"   -> delete_progress(t, o)
      [] t.pc = "reply_photo"       -> reply_photo(t, o)
      [] t.pc = "except_ValueError" -> except_ValueError(t, u, o)
      [] t.pc = "except_Exception"  -> except_Exception(t, o)
      [] OTHER                      -> {}

\* currency_command run alone on the update u with the answers os, in order:
\* the frames it can end in.
RECURSIVE run_from(_, _, _)
run_from(ts, u, os) ==
    IF os = <<>> THEN ts
    ELSE run_from(UNION {resume(t, u, Head(os)) : t \in ts}, u, Tail(os))

run_alone(u, os) == run_from(start(u), u, os)

---------------------------------------------------------------------------
(* is_math_expression, calculate_result (src/bot/handlers.py) and          *)
(* inline_query (src/bot/inline_handler.py).                               *)

\* s.strip(): the blanks at both ends removed.
RECURSIVE strip(_)
strip(s) ==
    IF s # "" /\ Ch(s, 1) \in Whitespace THEN strip(SubSeq(s, 2, Len(s)))
    ELSE IF s # "" /\ Ch(s, Len(s)) \in Whitespace THEN strip(SubSeq(s, 1, Len(s) - 1))
    ELSE s

\* s.replace(c, ''): every occurrence of the character c removed.
RECURSIVE remove_all(_, _)
remove_all(s, c) ==
    IF s = "" THEN ""
    ELSE (IF Ch(s, 1) = c THEN "" ELSE Ch(s, 1)) \o remove_all(SubSeq(s, 2, Len(s)), c)

\* The class [\d+\-*/\s.()] of line 27.
MathChars == DecimalDigits \cup Whitespace \cup {"+", "-", "*", "/", ".", "(", ")"}

\* Lines 18-27.
is_math_expression(text) ==
    IF text = "" THEN FALSE
    ELSE LET t == IF startswith(text, "/") THEN SubSeq(text, 2, Len(text)) ELSE text
         IN  IF t = "" \/ ~IsDigitChar(Ch(t, 1)) THEN FALSE
             ELSE \A i \in 1..Len(t) : Ch(t, i) \in MathChars

\* What calculate_result returns: the kind of its message and raw_result,
\* "None" or "number".
Calculated(message, raw_result) == [message |-> message, raw_result |-> raw_result]

\* Lines 41-94; evaluation is what simple_eval does with the expression: it
\* gives a "number", or raises "ZeroDivisionError" or another "Exception".
\* Every exception is caught inside.
calculate_result(expression, evaluation) ==
    IF expression = "" THEN Calculated("error", "None")
    ELSE LET e == remove_all(IF startswith(expression, "/")
                             THEN SubSeq(expression, 2, Len(expression))
                             ELSE expression, " ")
         IN  IF ~is_math_expression(e) THEN Calculated("invalid", "None")
             ELSE CASE evaluation = "ZeroDivisionError" -> Calculated("zero_division", "None")
                    [] evaluation = "Exception" -> Calculated("invalid", "None")
                    [] OTHER -> Calculated("result", "number")

\* The frame of a call of inline_query: where it is suspended, its locals
\* (raw_result is "unbound" until line 36 binds it), the id of the article in
\* results, and the calls of query.answer so far: the id of the article each
\* sent and how it ended.
Inline(pc) ==
    [pc |-> pc, query_text |-> "", raw_result |-> "unbound", results |-> "",
     answers |-> <<>>]

Answer(id, status) == [id |-> id, status |-> status]

\* Lines 10-50: up to the first await.
inline_start(q, evaluation) ==
    IF ~q.query THEN Inline("returned")
    ELSE LET query_text == strip(q.text)
         IN  IF query_text = ""
             THEN [Inline("answer") EXCEPT !.results = "help"]
             ELSE LET slashed == IF startswith(query_text, "/") THEN query_text
                                 ELSE "/" \o query_text
                      calc == calculate_result(slashed, evaluation)
                  IN  [Inline("answer") EXCEPT !.query_text = slashed,
                                               !.raw_result = calc.raw_result,
                                               !.results = "1"]

\* Lines 50-57: the first query.answer ends; after it line 51 reads
\* raw_result, and the UnboundLocalError of an unbound raw_result is taken by
\* the except clause like the exception of query.answer.
inline_answer(f, status) ==
    LET f1 == [f EXCEPT !.answers = Append(@, Answer(f.results, status))]
    IN  IF status # "ok" \/ f.raw_result = "unbound"
        THEN [f1 EXCEPT !.pc = "error_answer"]
        ELSE [f1 EXCEPT !.pc = "returned"]

\* Lines 59-71: the error article is sent; its exception is logged.
inline_error_answer(f, status) ==
    [f EXCEPT !.pc = "returned", !.answers = Append(@, Answer("error", status))]

---------------------------------------------------------------------------
(* The updates and the answers of the handlers' model.                     *)

\* update.inline_query: missing, or a query with its text.
InlineQuery(present, text) == [query |-> present, text |-> text]

InlineQueries ==
    {InlineQuery(FALSE, "")}
    \cup {InlineQuery(TRUE, t) : t \in {"", "  ", "2+2", "/2 + 2", "1/0", "abc", "~", " 7 "}}

\* What simple_eval does with an expression.
Evaluations == {"number", "ZeroDivisionError", "Exception"}

\* How a call of query.answer ends.
AnswerStatuses == {"ok", "TelegramError"}

\* An update with a command: update.message may be missing; context.args and
\* the base currency of the command.
Update(message, a, bc) == [message |-> message, args |-> a, base_currency |-> bc]

CommandUpdates ==
    {Update(FALSE, <<>>, "EUR"),
     Update(TRUE, <<>>, "EUR"),
     Update(TRUE, <<"100usd", "R+5">>, "EUR"),
     Update(TRUE, <<"~">>, "USD")}

\* What the HTML of the rendered page can give: a rate, no "=" pattern, a rate
\* of 0.0.
Pages ==
    {Extracted("text", "1.00 US Dollar = 0.92 Euro"),
     Extracted("text", "no numbers here"),
     Extracted("text", "1.00 A = 0.00 B")}

\* The answers of the Telegram calls: done, or a telegram.error.TelegramError.
TelegramResponses == {Response("ok", NoBody), Response("TelegramError", NoBody)}

\* The answers of the rendering API: a JSON with both locators, a status that
\* is not 200, a body that is not JSON, a JSON without a locator, an
\* aiohttp.ClientError.
ApiResponses ==
    {Response(s, NoBody) : s \in {"200", "500", "bad_json", "no_locator", "ClientError"}}

\* The answers of the HTML fetch: a text, a status that is not 200, an empty
\* text, an aiohttp.ClientError.
HtmlResponses ==
    {Response("200", b) : b \in Pages}
    \cup {Response(s, NoBody) : s \in {"404", "empty", "ClientError"}}

\* The answers of the image download.
ImageResponses == {Response(s, NoBody) : s \in {"200", "404", "ClientError"}}

\* The calls of currency_command in flight together.
Commands == {1, 2}

---------------------------------------------------------------------------

\* The handlers are not running.
HandlersIdle ==
    /\ updates = [c \in Commands |-> Update(FALSE, <<>>, "EUR")]
    /\ tasks = [c \in Commands |-> Task("returned")]
    /\ query = InlineQuery(FALSE, "")
    /\ inline = Inline("returned")

\* The functions are not exercised.
FunctionsIdle ==
    /\ args = <<>>
    /\ base_currency = "EUR"
    /\ draw = 0
    /\ parsed = Pending
    /\ amount_in = Num(0)
    /\ rate_in = Num(1)
    /\ adjusted = Pending
    /\ extracted = Extracted("text", "")
    /\ rate = Pending

---------------------------------------------------------------------------

InitParse ==
    /\ fn = "parse_currency_input"
    /\ args \in ArgLists
    /\ base_currency \in Bases
    /\ draw = 0
    /\ parsed = Pending
    /\ amount_in = Num(0)
    /\ rate_in = Num(1)
    /\ adjusted = Pending
    /\ extracted = Extracted("text", "")
    /\ rate = Pending
    /\ HandlersIdle

InitAdjust ==
    /\ fn = "adjust_amount"
    /\ amount_in \in Amounts
    /\ rate_in \in Multipliers
    /\ args = <<>>
    /\ base_currency = "EUR"
    /\ draw = 0
    /\ parsed = Pending
    /\ adjusted = Pending
    /\ extracted = Extracted("text", "")
    /\ rate = Pending
    /\ HandlersIdle

InitRates ==
    /\ fn = "parse_XE_rates"
    /\ extracted \in Extractions
    /\ args = <<>>
    /\ base_currency = "EUR"
    /\ draw = 0
    /\ parsed = Pending
    /\ amount_in = Num(0)
    /\ rate_in = Num(1)
    /\ adjusted = Pending
    /\ rate = Pending
    /\ HandlersIdle

Init == InitParse \/ InitAdjust \/ InitRates

\* A call of parse_currency_input(args, base_currency).
ParseCurrencyInput ==
    /\ fn = "parse_currency_input"
    /\ parsed = Pending
    /\ \E r \in randint(RandMin, RandMax) :
          /\ draw' = r
          /\ parsed' = Done(parse_currency_input(args, base_currency, r))
    /\ UNCHANGED <<fn, args, base_currency, amount_in, rate_in, adjusted, extracted, rate, handlers>>

\* A call of adjust_amount(amount_in, rate_in).
AdjustAmount ==
    /\ fn = "adjust_amount"
    /\ adjusted = Pending
    /\ \E v \in adjust_amount(amount_in, rate_in) : adjusted' = Done(v)
    /\ UNCHANGED <<fn, args, base_currency, draw, parsed, amount_in, rate_in, extracted, rate, handlers>>

\* A call of parse_XE_rates(input_str).
ParseXERates ==
    /\ fn = "parse_XE_rates"
    /\ rate = Pending
    /\ \E v \in parse_XE_rates(extracted) : rate' = Done(v)
    /\ UNCHANGED <<fn, args, base_currency, draw, parsed, amount_in, rate_in, adjusted, extracted, handlers>>

Next == ParseCurrencyInput \/ AdjustAmount \/ ParseXERates

Spec == Init /\ [][Next]_vars

---------------------------------------------------------------------------
(* The handlers: calls of currency_command in flight together, resumed in  *)
(* any order, or a call of inline_query.                                   *)

InitCommands ==
    /\ fn = "currency_command"
    /\ updates \in [Commands -> CommandUpdates]
    /\ tasks = [c \in Commands |-> Task("start")]
    /\ query = InlineQuery(FALSE, "")
    /\ inline = Inline("returned")
    /\ FunctionsIdle

\* The task of command c goes on as t.
goes_on(c, t) ==
    /\ tasks' = [tasks EXCEPT ![c] = t]
    /\ UNCHANGED <<fn, functions, updates, query, inline>>

\* The dispatcher calls currency_command(update, context, base_currency).
Start(c) ==
    /\ tasks[c].pc = "start"
    /\ \E t \in start(updates[c]) : goes_on(c, t)

ReplyProgress(c) ==
    /\ tasks[c].pc = "reply_progress"
    /\ \E o \in TelegramResponses : \E t \in reply_progress(tasks[c], o) : goes_on(c, t)

UrlboxApi(c) ==
    /\ tasks[c].pc = "urlbox_api"
    /\ \E o \in ApiResponses : \E t \in urlbox_api(tasks[c], o) : goes_on(c, t)

\* HtmlFetch with the caption kept in one place for all the calls in flight:
\* the caption a call builds replaces the caption of the others.
HtmlFetchSharedCaption(c) ==
    /\ tasks[c].pc = "html_fetch"
    /\ \E o \in HtmlResponses : \E t \in html_fetch(tasks[c], o) :
          /\ tasks' = [d \in Commands |->
                          IF d = c THEN t ELSE [tasks[d] EXCEPT !.caption = t.caption]]
          /\ UNCHANGED <<fn, functions, updates, query, inline>>

HtmlFetch(c) ==
    /\ tasks[c].pc = "html_fetch"
    /\ \E o \in HtmlResponses : \E t \in html_fetch(tasks[c], o) : goes_on(c, t)

ImageDownload(c) ==
    /\ tasks[c].pc = "image_download"
    /\ \E o \in ImageResponses : \E t \in image_download(tasks[c], o) : goes_on(c, t)

DeleteProgress(c) ==
    /\ tasks[c].pc = "delete_progress"
    /\ \E o \in TelegramResponses : \E t \in delete_progress(tasks[c], o) : goes_on(c, t)

ReplyPhoto(c) ==
    /\ tasks[c].pc = "reply_photo"
    /\ \E o \in TelegramResponses : \E t \in reply_photo(tasks[c], o) : goes_on(c, t)

ExceptValueError(c) ==
    /\ tasks[c].pc = "except_ValueError"
    /\ \E o \in TelegramResponses :
          \E t \in except_ValueError(tasks[c], updates[c], o) : goes_on(c, t)

ExceptException(c) ==
    /\ tasks[c].pc = "except_Exception"
    /\ \E o \in TelegramResponses : \E t \in except_Exception(tasks[c], o) : goes_on(c, t)

InitInline ==
    /\ fn = "inline_query"
    /\ query \in InlineQueries
    /\ inline = Inline("start")
    /\ updates = [c \in Commands |-> Update(FALSE, <<>>, "EUR")]
    /\ tasks = [c \in Commands |-> Task("returned")]
    /\ FunctionsIdle

\* The dispatcher calls inline_query(update, context).
InlineStart ==
    /\ inline.pc = "start"
    /\ \E e \in Evaluations : inline' = inline_start(query, e)
    /\ UNCHANGED <<fn, functions, updates, tasks, query>>

InlineAnswer ==
    /\ inline.pc = "answer"
    /\ \E s \in AnswerStatuses : inline' = inline_answer(inline, s)
    /\ UNCHANGED <<fn, functions, updates, tasks, query>>

InlineErrorAnswer ==
    /\ inline.pc = "error_answer"
    /\ \E s \in AnswerStatuses : inline' = inline_error_answer(inline, s)
    /\ UNCHANGED <<fn, functions, updates, tasks, query>>

InitHandlers == InitCommands \/ InitInline

NextCommands ==
    \E c \in Commands :
        \/ Start(c)
        \/ ReplyProgress(c)
        \/ UrlboxApi(c)
        \/ HtmlFetch(c)
        \/ ImageDownload(c)
        \/ DeleteProgress(c)
        \/ ReplyPhoto(c)
        \/ ExceptValueError(c)
        \/ ExceptException(c)

NextHandlers == NextCommands \/ InlineStart \/ InlineAnswer \/ InlineErrorAnswer

HandlerSpec == InitHandlers /\ [][NextHandlers]_vars


---------------------------------------------------------------------------
(* The claims.                                                             *)

ParseDone == fn = "parse_currency_input" /\ parsed # Pending

AdjustDone == fn = "adjust_amount" /\ adjusted # Pending

RatesDone == fn = "parse_XE_rates" /\ rate # Pending

\* The last token of args, upper-cased, when it is an extra token (index >= 1).
LastExtra == upper(args[Len(args)])

\* Exactly 3 alphabetic characters.
IsCode(t) == Len(t) = 3 /\ isalpha(t)

\* The value float() reads from an upper-cased rate token.
RateValue(t) == float_str(rate_str(t))

\* 1 + v/100 for v >= 0 and 1/(1 + |v|/100) for v < 0, for a finite v = n/d.
Multiplier(v) ==
    IF v.n >= 0 THEN Fin(100 * v.d + v.n, 100 * v.d)
    ELSE Fin(100 * v.d, 100 * v.d - v.n)

C2_FirstTokenClasses ==
    (ParseDone /\ Len(args) = 1) =>
        LET t      == upper(args[1])
            suffix == SubSeq(t, Len(t) - 2, Len(t))
            prefix == SubSeq(t, 1, Len(t) - 3)
            dflt   == Locals(Num(draw), base_currency,
                             IF base_currency = "USD" THEN "EUR" ELSE "USD", Num(1))
        IN  CASE IsCode(t) ->
                   parsed.out = [dflt EXCEPT !.to_currency = t]
              [] Len(t) >= 3 /\ isalpha(suffix) /\ isdigit(prefix) ->
                   parsed.out = Locals(float_str(prefix), suffix, base_currency, Num(1))
              [] isdigit(t) ->
                   parsed.out = [dflt EXCEPT !.amount = float_str(t)]
              [] OTHER ->
                   parsed.out = dflt

\* C3: an extra token that parses to a signed value v sets rate_multiplier to
\* 1 + v/100 when v >= 0 and to 1/(1 + |v|/100) when v < 0; R+5 gives 1.05 and
\* R-2 gives 1/1.02.  Stated of the last token, which no later token overwrites.
C3_RateFormula ==
    (ParseDone /\ Len(args) >= 2 /\ parsed.out.exc = "") =>
        /\ (is_rate_token(LastExtra) /\ IsFin(RateValue(LastExtra))) =>
               parsed.out.rate_adjustment = Multiplier(RateValue(LastExtra))
        /\ LastExtra = "R+5" => parsed.out.rate_adjustment = Fin(105, 100)
        /\ LastExtra = "R-2" => parsed.out.rate_adjustment = Fin(100, 102)
        /\ LastExtra = "-100" => parsed.out.rate_adjustment = Fin(1, 2)
        /\ LastExtra = "2.5" => parsed.out.rate_adjustment = Fin(1025, 1000)

C3_Witness ==
    /\ ParseDone /\ Len(args) = 3 /\ args[2] = "R+5" /\ args[3] = "R-2"
    /\ parsed.out.rate_adjustment = Fin(50, 51)

\* C4: the rate_multiplier parse_currency_input returns is strictly greater than
\* 0, whatever value the numeric parse of a rate token accepts.
C4_RatePositive ==
    (ParseDone /\ parsed.out.exc = "") =>
        /\ parsed.out.rate_adjustment.k \in {"fin", "inf"}
        /\ parsed.out.rate_adjustment.n > 0

\* The argument list a without its i-th token.
Without(a, i) == SubSeq(a, 1, i - 1) \o SubSeq(a, i + 1, Len(a))

\* An extra token of the rate-adjustment shape that float() rejects.
Malformed(token) ==
    is_rate_token(upper(token)) /\ RateValue(upper(token)).k = "ValueError"

\* C5: an extra token of the rate-adjustment shape that fails numeric parsing
\* raises nothing, leaves rate_multiplier as it was and does not stop the tokens
\* after it: the call ends as it does on the list without that token, and it
\* returns whenever token 0 alone does.
C5_MalformedRateIgnored ==
    ParseDone =>
        \A i \in 2..Len(args) :
            Malformed(args[i]) =>
                /\ parsed.out = parse_currency_input(Without(args, i), base_currency, draw)
                /\ (\A j \in 2..Len(args) : Malformed(args[j]) \/ j = i) =>
                       /\ parsed.out.exc =
                              parse_currency_input(<<args[1]>>, base_currency, draw).exc
                       /\ parsed.out.rate_adjustment = Num(1)

C5_Witness ==
    /\ ParseDone /\ Len(args) = 3 /\ args[2] = "Rabc" /\ args[3] = "gbp"
    /\ parsed.out.exc = ""
    /\ parsed.out.rate_adjustment = Num(1)
    /\ parsed.out.to_currency = "GBP"

\* C6: every extra token that, upper-cased, is exactly 3 alphabetic characters
\* overwrites to_currency with that token.  Stated of the last token, which no
\* later token overwrites.
C6_CodeOverwrites ==
    (ParseDone /\ Len(args) >= 2 /\ parsed.out.exc = "" /\ IsCode(LastExtra)) =>
        parsed.out.to_currency = LastExtra

\* The extra tokens of a that satisfy P, as positions.
RatePositions(a) ==
    {i \in 2..Len(a) : is_rate_token(upper(a[i])) /\ IsFloat(RateValue(upper(a[i])))}

CodePositions(a) == {i \in 2..Len(a) : IsCode(upper(a[i]))}

Max(S) == CHOOSE x \in S : \A y \in S : y <= x

\* C7: the returned rate_multiplier is determined by the last rate-adjustment
\* token alone and the returned to_currency by the last currency-code token (3
\* alphabetic characters) alone; without such a token the field is what token 0
\* left.
C7_LastOfEachKind ==
    (ParseDone /\ Len(args) >= 1 /\ parsed.out.exc = "") =>
        LET first == parse_currency_input(<<args[1]>>, base_currency, draw)
            rates == RatePositions(args)
            codes == CodePositions(args)
        IN  /\ parsed.out.rate_adjustment =
                   (IF rates = {} THEN first.rate_adjustment
                    ELSE rate_of(RateValue(upper(args[Max(rates)]))))
            /\ parsed.out.to_currency =
                   (IF codes = {} THEN first.to_currency
                    ELSE upper(args[Max(codes)]))

C9_RateParseError ==
    (RatesDone /\ extracted.kind = "text") =>
        LET text  == extracted.text
            parts == split(re_sub(re_search(text)), "=")
        IN  /\ ( \/ text = ""
                 \/ re_search(text) = ""
                 \/ Len(parts) # 2
                 \/ FLe0(float_str(parts[1])) ) => rate.out = Raised("ValueError")
            /\ text \in {"no numbers here", "1.0A = 1.0 B", "1.0 A = 1.0 ", "5 A = 1.0 B",
                         "0.00 A = 1.00 B"} => rate.out = Raised("ValueError")

C9_Witness ==
    /\ RatesDone /\ extracted = Extracted("text", "0.00 A = 1.00 B")
    /\ rate.out = Raised("ValueError")

\* C10: on a text with a matching statement parse_XE_rates reads the first match
\* with everything but digits, '.' and '=' removed (1,234.56 is 1234.56) and, for
\* from_amount > 0, returns to_amount / from_amount rounded to 7 decimals: a
\* multiple of 10^-7 within half of 10^-7 of the quotient.
C10_RateOfFirstMatch ==
    (RatesDone /\ extracted.kind = "text") =>
        LET text  == extracted.text
            parts == split(re_sub(re_search(text)), "=")
            q     == FDiv(float_str(parts[2]), float_str(parts[1]))
            r     == rate.out
        IN  /\ (re_search(text) # "" /\ FGt0(float_str(parts[1]))) =>
                   /\ IsFin(r)
                   /\ 10000000 % r.d = 0
                   /\ 2 * Abs(r.n * (10000000 \div r.d) * q.d - q.n * 10000000) <= q.d
            /\ text = "1,234.56 A = 1.00 B" => r = Fin(81, 100000)
            /\ text = "7,000.0 A = 1,000.0 B" => r = Fin(1428571, 10000000)
            /\ text = "1.0 A = 2.0 B 3.0 C = 9.0 D" => r = Num(2)
            /\ text = "x 2.0 A = 3.0 B = 4.0 C" => r = Fin(3, 2)
            /\ text = "1.00 US Dollar = 0.92 Euro" => r = Fin(92, 100)

C10_Witness ==
    /\ RatesDone /\ extracted = Extracted("text", "1,234.56 A = 1.00 B")
    /\ rate.out = Fin(81, 100000)

\* The awaited calls of the task t named call, in order.
CallsOf(t, call) == SelectSeq(t.io, LAMBDA e : e.call = call)

Answered(t, call) == CallsOf(t, call) # <<>>

\* The status of the last answer of the call, "" when there is none.
StatusOf(t, call) ==
    LET es == CallsOf(t, call)
    IN  IF es = <<>> THEN "" ELSE es[Len(es)].response.status

\* The lines of the caption that show what.
LinesOf(caption, what) == SelectSeq(caption, LAMBDA l : l.line = what)

\* The extraction of the page the task fetched fails with ValueError.
RateParseFails(t) ==
    /\ StatusOf(t, "html_fetch") = "200"
    /\ \A r \in parse_XE_rates(t.html_data) : ~IsFloat(r)

\* C11: in fetch_XE_rates, when the extraction of the rate from the fetched
\* text fails with ValueError the call does not fail: it goes on to the image
\* download, and when that answers 200 it returns the image bytes and a
\* caption with the amount line and the timestamp line and no rate line.
C11_RateErrorStillReturns ==
    \A c \in Commands :
        LET t == tasks[c]
        IN  RateParseFails(t) =>
              /\ LinesOf(t.caption, "rate") = <<>>
              /\ Len(LinesOf(t.caption, "amount")) = 1
              /\ Len(LinesOf(t.caption, "timestamp")) = 1
              /\ ~Answered(t, "image_download") =>
                    t.pc = "image_download" /\ t.fetched = Pending
              /\ StatusOf(t, "image_download") = "200" =>
                    t.fetched = Returned(IMAGE, t.caption)

C11_Witness ==
    \E c \in Commands :
        /\ RateParseFails(tasks[c])
        /\ tasks[c].html_data = Extracted("text", "no numbers here")
        /\ tasks[c].fetched.status = "returned"

\* The page the task fetched, when it has fetched one.
Fetched(t) == StatusOf(t, "html_fetch") = "200"

\* The caption c ends with the two rate lines of the rate r: the forward rate
\* and its reciprocal, each to 7 decimals.
TwoRateLines(t, r) ==
    LET ls == LinesOf(t.caption, "rate")
        loc == t.locals
    IN  /\ Len(ls) = 2
        /\ SubSeq(t.caption, Len(t.caption) - 1, Len(t.caption)) = ls
        /\ ls[1].one = loc.from_currency /\ ls[1].other = loc.to_currency
        /\ ls[1].value \in round(r, RateDecimals)
        /\ ls[2].one = loc.to_currency /\ ls[2].other = loc.from_currency
        /\ ls[2].value \in round(FDiv(Num(1), r), RateDecimals)

\* C12 as stated: in fetch_XE_rates, whenever the rate extraction returns a
\* rate, whatever its value, the caption has exactly two rate lines, the
\* forward rate and its reciprocal to 7 decimals.
C12_TwoRateLinesAlways ==
    \A c \in Commands :
        LET t == tasks[c]
        IN  Fetched(t) =>
              \A r \in parse_XE_rates(t.html_data) : IsFloat(r) => TwoRateLines(t, r)

\* C12 amended: whenever the rate extraction returns a rate greater than 0,
\* the caption has exactly two rate lines, the forward rate and its
\* reciprocal to 7 decimals; when it returns a rate that is not greater than
\* 0 (0.0), no rate line is appended and the call goes on to the image
\* download.
C12_TwoRateLinesWhenPositive ==
    \A c \in Commands :
        LET t == tasks[c]
        IN  Fetched(t) =>
              \A r \in parse_XE_rates(t.html_data) :
                  /\ IsFloat(r) /\ FGt0(r) => TwoRateLines(t, r)
                  /\ IsFloat(r) /\ ~FGt0(r) =>
                        /\ LinesOf(t.caption, "rate") = <<>>
                        /\ ~Answered(t, "image_download") => t.pc = "image_download"

C12_Witness ==
    \E c \in Commands :
        /\ Fetched(tasks[c])
        /\ tasks[c].html_data = Extracted("text", "1.00 US Dollar = 0.92 Euro")
        /\ Len(LinesOf(tasks[c].caption, "rate")) = 2
        /\ LinesOf(tasks[c].caption, "rate")[1].value = Fin(92, 100)


\* The task is inside fetch_XE_rates, suspended at one of its awaits.
InFetch(t) == t.pc \in {"urlbox_api", "html_fetch", "image_download"}

\* The call failed: it was answered, and not with the status 200.
Failed(t, call) == StatusOf(t, call) \notin {"", "200"}

\* C13: fetch_XE_rates ends in one of two ways: it returns the image bytes
\* together with the caption, or it raises and its caller gets nothing.  A
\* status other than 200 of the image download raises although the caption is
\* built; a failure of the rendering service (API request or HTML fetch)
\* raises before there is a caption or an image; no caption reaches the caller
\* or the chat without the image bytes.
C13_ReturnsBothOrRaises ==
    \A c \in Commands :
        LET t == tasks[c]
        IN  /\ t.fetched.status \in {"pending", "returned", "raised"}
            /\ t.fetched.status = "pending" =>
                  \/ InFetch(t)
                  \/ ~Answered(t, "urlbox_api")
            /\ t.fetched.status = "returned" =>
                  /\ StatusOf(t, "image_download") = "200"
                  /\ t.fetched.image_data = IMAGE
                  /\ t.fetched.caption = t.caption
                  /\ t.caption # <<>>
            /\ t.fetched.status = "raised" =>
                  /\ Failed(t, "urlbox_api") \/ Failed(t, "html_fetch")
                        \/ Failed(t, "image_download")
                  /\ t.pc \in {"except_ValueError", "except_Exception",
                               "returned", "raised"}
                  /\ \A i \in 1..Len(t.chat) : t.chat[i].kind # "photo"
            /\ Failed(t, "image_download") =>
                  t.fetched.status = "raised" /\ t.caption # <<>>
            /\ Failed(t, "urlbox_api") \/ Failed(t, "html_fetch") =>
                  /\ t.fetched.status = "raised"
                  /\ t.caption = <<>>
                  /\ ~Answered(t, "image_download")
            /\ \A i \in 1..Len(t.chat) :
                  t.chat[i].kind = "photo" =>
                      t.chat[i].photo = IMAGE /\ t.chat[i].caption = t.caption

C13_Witness ==
    \E c \in Commands :
        /\ StatusOf(tasks[c], "image_download") = "404"
        /\ tasks[c].fetched = FetchRaised("ValueError")
        /\ Len(LinesOf(tasks[c].caption, "rate")) = 2


\* An external fetch of the task failed.
FetchFailed(t) ==
    Failed(t, "urlbox_api") \/ Failed(t, "html_fetch") \/ Failed(t, "image_download")

\* The last message currency_command put in the chat.
LastMessage(t) == t.chat[Len(t.chat)]

\* C14: when a currency command fails because of an external fetch (the
\* rendering API answers with a status other than 200 or without a locator,
\* the HTML fetch fails or is empty, the image download answers with a status
\* other than 200), the reply currency_command sends is the generic apology
\* built on ERROR_MESSAGE, whatever the cause.
C14_FetchFailureApology ==
    \A c \in Commands :
        LET t == tasks[c]
        IN  FetchFailed(t) /\ t.pc = "returned" =>
              /\ LastMessage(t).kind = "text"
              /\ contains(LastMessage(t).text, ERROR_MESSAGE)


\* The reply of an except clause of currency_command.
IsErrorReply(m, u) ==
    m.kind = "text" /\ m.text \in {invalid_input_text(u.base_currency), apology_text}

\* C15: whatever step of currency_command raises (parsing, sending or
\* deleting the progress message, rendering, extraction, image download,
\* sending the photo, sending the error reply), the exception is caught inside
\* the handler and turned into an error reply to the user; none leaves
\* currency_command.
C15_NoExceptionPropagates ==
    \A c \in Commands :
        LET t == tasks[c]
        IN  /\ t.pc # "raised"
            /\ t.exc # "" /\ t.pc = "returned" =>
                  t.chat # <<>> /\ IsErrorReply(LastMessage(t), updates[c])

\* The calls fetch_XE_rates makes to the outside, in the order it made them.
ExternalCalls(t) ==
    SelectSeq(t.io, LAMBDA e : e.call \in {"urlbox_api", "html_fetch", "image_download"})

\* The order of the external calls.
CallOrder == <<"urlbox_api", "html_fetch", "image_download">>

\* C17: within one call of fetch_XE_rates every external call is made at most
\* once and in the order rendering-API request, HTML fetch, image download;
\* the failure of one ends the call with an exception at once: the failed call
\* is not repeated and no later call is made.
C17_OnceInOrderNoRetry ==
    \A c \in Commands :
        LET t == tasks[c]
            ext == ExternalCalls(t)
        IN  /\ Len(ext) <= Len(CallOrder)
            /\ \A i \in 1..Len(ext) : ext[i].call = CallOrder[i]
            /\ \A i \in 1..Len(ext) :
                  ext[i].response.status # "200" =>
                      /\ i = Len(ext)
                      /\ t.fetched.status = "raised"
                      /\ ~InFetch(t)
            /\ InFetch(t) => t.pc = CallOrder[Len(ext) + 1]

C17_Witness ==
    \E c \in Commands :
        /\ Len(ExternalCalls(tasks[c])) = 2
        /\ Failed(tasks[c], "html_fetch")
        /\ tasks[c].pc = "returned"

\* The answers the task got, in order.
Answers(t) == [i \in 1..Len(t.io) |-> t.io[i].response]

\* C18: with two currency commands in flight, resumed in any order at their
\* awaits (the rendering service and the image download among them), each
\* command ends as it can end when it runs alone on its update with the
\* answers it got: a failure of an external call of one command gives the
\* error reply to that command only and leaves the other command's photo and
\* caption, or its own error, as they are alone.
C18_AsIfAlone ==
    \A c \in Commands :
        LET t == tasks[c]
        IN  /\ t.pc # "start" => t \in run_alone(updates[c], Answers(t))
            /\ (\E i \in 1..Len(t.chat) : IsErrorReply(t.chat[i], updates[c])) =>
                  t.exc # ""

C18_Witness ==
    \E c, d \in Commands :
        /\ c # d
        /\ StatusOf(tasks[c], "image_download") = "404"
        /\ tasks[c].pc = "except_ValueError"
        /\ tasks[d].pc = "reply_photo"
        /\ StatusOf(tasks[d], "image_download") = "200"
        /\ updates[c] = updates[d]


\* s without one leading (trailing) character c, when it has one.
RemoveOneLeading(s, c) == IF startswith(s, c) THEN SubSeq(s, 2, Len(s)) ELSE s

RemoveOneTrailing(s, c) == IF endswith(s, c) THEN SubSeq(s, 1, Len(s) - 1) ELSE s

\* One leading 'R', then one leading '+', then one trailing '%' removed.
SingleRemoval(t) ==
    RemoveOneTrailing(RemoveOneLeading(RemoveOneLeading(t, "R"), "+"), "%")

\* What is left still has a leading 'R' or '+' or a trailing '%'.
StillMarked(s) == startswith(s, "R") \/ startswith(s, "+") \/ endswith(s, "%")

\* C16: a rate-adjustment token is read after one leading 'R', then one
\* leading '+', then one trailing '%' are removed; a token that still has a
\* leading 'R' or '+' or a trailing '%' after that single removal ("RR5",
\* "++5", "5%%") fails numeric parsing and is ignored: the call ends as it
\* does on the list without that token.
C16_SingleRemoval ==
    ParseDone =>
        \A i \in 2..Len(args) :
            LET t == upper(args[i])
            IN  is_rate_token(t) /\ StillMarked(SingleRemoval(t)) =>
                    parsed.out =
                        parse_currency_input(Without(args, i), base_currency, draw)

\* C19: in parse_currency_input token 0 never changes rate_multiplier (["R-2"]
\* leaves it at 1.0), and the extra tokens (index >= 1) never change amount or
\* from_currency: the two are what the call on token 0 alone gives.
C19_TokenFrames ==
    ParseDone =>
        /\ Len(args) <= 1 => parsed.out.rate_adjustment = Num(1)
        /\ Len(args) >= 1 =>
              LET first == parse_currency_input(<<args[1]>>, base_currency, draw)
              IN  /\ first.rate_adjustment = Num(1)
                  /\ parsed.out.amount = first.amount
                  /\ parsed.out.from_currency = first.from_currency

C19_Witness ==
    /\ ParseDone /\ args = <<"100usd", "R+5", "gbp">> /\ base_currency = "EUR"
    /\ parsed.out.amount = Num(100)
    /\ parsed.out.from_currency = "USD"
    /\ parsed.out.rate_adjustment = Fin(105, 100)
    /\ parsed.out.to_currency = "GBP"

\* C20: for every inline query, empty or not, whose first query.answer
\* succeeds, inline_query calls query.answer exactly once and does not send
\* the error article afterwards; the error article is sent only when building
\* or sending the first answer failed.
C20_AnswerOnce ==
    (Len(inline.answers) >= 1 /\ inline.answers[1].status = "ok") =>
        /\ inline.pc = "returned"
        /\ Len(inline.answers) = 1
        /\ inline.answers[1].id # "error"

====
